---- MODULE Spec2Model ----
(***************************************************************************)
(* dumpSTR: filtering and QC of STR genotypes.                             *)
(*                                                                         *)
(* The model follows scripts/dumpSTR/dumpSTR.py: argument checking          *)
(* (CheckFilters), construction of the call and locus filter lists,        *)
(* the per-record loop of main (ApplyCallFilters, the locus filter loop,   *)
(* recomputation of the INFO fields, emission) and the two logs.           *)
(*                                                                         *)
(* Conventions.                                                            *)
(*  - An optional argument is a sequence: None is <<>>, a supplied value v *)
(*    is <<v>>.                                                            *)
(*  - Rates and p-values (floats in [0,1] in the program) are integers in  *)
(*    percent when they are thresholds, and exact fractions <<n, d>> when  *)
(*    they are computed; -1 is the fraction <<-1, 1>>.                     *)
(*  - A per-call FILTER string ",".join(reasons) is kept as the sequence   *)
(*    of reasons it joins; "PASS" and "NOCALL" are one-element sequences.  *)
(*  - A sequence of bases stands for a Python string of bases.             *)
(***************************************************************************)
EXTENDS Integers, Sequences, FiniteSets, TLC

VARIABLES
    pc,             \* position in main
    args,           \* the argparse namespace
    formats,        \* ids of the FORMAT fields declared by the input header
    filter_list,    \* locus filters (main, line 309)
    call_filters,   \* call filters (main, line 314)
    outvcf,         \* "closed" or "open": the output VCF writer
    written,        \* number of records written to outvcf
    sample_info,    \* per-sample counters
    loc_info,       \* locus counters, keyed by "totalcalls", "PASS", filter names
    record_counter, \* main's record_counter
    rec,            \* the record last read from invcf, as read
    out,            \* the same record after the loop body
    emitted,        \* whether the last record was written
    evaluated,      \* names of the locus filters called on the last record
    samplog,        \* rows of <out>.samplog.tab, <<>> until written
    loclog,         \* content of <out>.loclog.tab, <<>> until written
    processed,      \* history: records that went through the loop body
    failedLoci,     \* history: processed records failing >= 1 locus filter
    passCalls,      \* history: per sample, records whose call got PASS
    passDP,         \* history: per sample, sum of DP over those calls
    first           \* second-run check: output of the first run

vars == <<pc, args, formats, filter_list, call_filters, outvcf, written,
          sample_info, loc_info, record_counter, rec, out, emitted, evaluated,
          samplog, loclog, processed, failedLoci, passCalls, passDP, first>>

\* Number of records the input stream may hold.
MaxRecords == 2

None == <<>>
Some(v) == <<v>>
IsNone(o) == o = <<>>
Val(o) == o[1]

Samples == {"s1", "s2"}

(***************************************************************************)
(* Sequence helpers                                                        *)
(***************************************************************************)
Range(s) == {s[i] : i \in 1..Len(s)}

RECURSIVE SumOver(_, _)
SumOver(S, f) ==
    IF S = {} THEN 0
    ELSE LET x == CHOOSE y \in S : TRUE IN f[x] + SumOver(S \ {x}, f)

RECURSIVE Factorial(_)
Factorial(n) == IF n <= 0 THEN 1 ELSE n * Factorial(n - 1)

RECURSIVE Pow2(_)
Pow2(n) == IF n <= 0 THEN 1 ELSE 2 * Pow2(n - 1)

\* Number of occurrences of x in sequence s (Python list.count).
Count(s, x) == Cardinality({i \in 1..Len(s) : s[i] = x})

(***************************************************************************)
(* Input data model (PyVCF record, as far as dumpSTR reads it)             *)
(***************************************************************************)
MissingGT == {"None", "./.", "."}

\* vcf _Call.gt_alleles for the called genotypes of a biallelic site.
gt_alleles(gt) ==
    CASE gt = "0/0" -> <<0, 0>>
      [] gt = "0/1" -> <<0, 1>>
      [] gt = "1/1" -> <<1, 1>>
      [] OTHER -> <<>>

\* Reasons of all call filters of the filters module, in the order
\* inspect.getmembers lists the classes (sorted by class name).
GetAllCallFilters ==
    <<"CallFlankIndels", "CallStutter", "HighCallDepth", "LowCallDepth", "LowCallQ">>

(***************************************************************************)
(* Argument checking                                                       *)
(***************************************************************************)
\* CheckFilters: the message of the first common.ERROR reached, "" if none.
\* common.ERROR writes the message and exits the program.
CheckFilters(invcf_formats, a) ==
    IF ~IsNone(a.min_call_DP) /\ Val(a.min_call_DP) < 0
        THEN "Invalid min_call_DP <0"
    ELSE IF ~IsNone(a.min_call_DP) /\ "DP" \notin invcf_formats
        THEN "No DP FORMAT found"
    ELSE IF ~IsNone(a.max_call_DP) /\ Val(a.max_call_DP) < 0
        THEN "Invalid min_call_DP <0"
    ELSE IF /\ ~IsNone(a.max_call_DP)
            /\ ~IsNone(a.min_call_DP)
            /\ Val(a.max_call_DP) <= Val(a.min_call_DP)
        THEN "--max-call-DP must be > --min-call-DP"
    ELSE IF ~IsNone(a.max_call_DP) /\ "DP" \notin invcf_formats
        THEN "No DP FORMAT found"
    ELSE IF /\ ~IsNone(a.min_call_Q)
            /\ (Val(a.min_call_Q) < 0 \/ Val(a.min_call_Q) > 100)
        THEN "--min-call-Q must be between 0 and 1"
    ELSE IF ~IsNone(a.min_call_Q) /\ "Q" \notin invcf_formats
        THEN "No Q FORMAT found"
    ELSE IF /\ ~IsNone(a.max_call_flank_indel)
            /\ (Val(a.max_call_flank_indel) < 0 \/ Val(a.max_call_flank_indel) > 100)
        THEN "--max-call-flank-indel must be between 0 and 1"
    ELSE IF /\ ~IsNone(a.max_call_flank_indel)
            /\ ("DP" \notin invcf_formats \/ "DFLANKINDEL" \notin invcf_formats)
        THEN "No DP or DFLANKINDEL FORMAT found"
    ELSE IF /\ ~IsNone(a.max_call_stutter)
            /\ (Val(a.max_call_stutter) < 0 \/ Val(a.max_call_stutter) > 100)
        THEN "--max-call-stutter must be between 0 and 1"
    ELSE IF /\ ~IsNone(a.max_call_stutter)
            /\ ("DP" \notin invcf_formats \/ "DSTUTTER" \notin invcf_formats)
        THEN "No DP or DSTUTTER FORMAT found"
    ELSE ""

(***************************************************************************)
(* Call filters                                                            *)
(***************************************************************************)
CallFilter(kind, threshold) == [kind |-> kind, threshold |-> threshold]

\* Reason.GetReason: the reason a call filter reports.
GetReason(cfilt) == cfilt.kind

\* cfilt(sample) is not None: the call filter fires on the call.
CallFilterFires(cfilt, sample) ==
    CASE cfilt.kind = "LowCallDepth" -> Val(sample.DP) < cfilt.threshold
      [] cfilt.kind = "HighCallDepth" -> Val(sample.DP) > cfilt.threshold
      [] cfilt.kind = "LowCallQ" -> Val(sample.Q) < cfilt.threshold
      [] cfilt.kind = "CallFlankIndels" ->
            100 * Val(sample.DFLANKINDEL) > cfilt.threshold * Val(sample.DP)
      [] cfilt.kind = "CallStutter" ->
            100 * Val(sample.DSTUTTER) > cfilt.threshold * Val(sample.DP)

BuildCallFilters(a) ==
    (IF ~IsNone(a.min_call_DP)
        THEN <<CallFilter("LowCallDepth", Val(a.min_call_DP))>> ELSE <<>>)
    \o (IF ~IsNone(a.max_call_DP)
        THEN <<CallFilter("HighCallDepth", Val(a.max_call_DP))>> ELSE <<>>)
    \o (IF ~IsNone(a.min_call_Q)
        THEN <<CallFilter("LowCallQ", Val(a.min_call_Q))>> ELSE <<>>)
    \o (IF ~IsNone(a.max_call_flank_indel)
        THEN <<CallFilter("CallFlankIndels", Val(a.max_call_flank_indel))>> ELSE <<>>)
    \o (IF ~IsNone(a.max_call_stutter)
        THEN <<CallFilter("CallStutter", Val(a.max_call_stutter))>> ELSE <<>>)

\* FilterCall that stops at the first filter that fires.
RECURSIVE FilterCallFirstOnly(_, _)
FilterCallFirstOnly(sample, cfs) ==
    IF cfs = <<>> THEN <<>>
    ELSE IF CallFilterFires(Head(cfs), sample) THEN <<GetReason(Head(cfs))>>
    ELSE FilterCallFirstOnly(sample, Tail(cfs))

\* FilterCall: reasons of the call filters that fire, in list order.
RECURSIVE FilterCall(_, _)
FilterCall(sample, cfs) ==
    IF cfs = <<>> THEN <<>>
    ELSE (IF CallFilterFires(Head(cfs), sample) THEN <<GetReason(Head(cfs))>> ELSE <<>>)
         \o FilterCall(sample, Tail(cfs))

\* sample['GT'] is None or sample['GT'] == "./." or sample['GT'] == "."
GTMissing(sample) == sample.GT \in MissingGT

\* NewCall that leaves the genotype of a failing call in place.
NewCallKeepsGT(sample, cfs) ==
    IF GTMissing(sample) THEN [sample EXCEPT !.FILTER = <<"NOCALL">>]
    ELSE LET filter_reasons == FilterCall(sample, cfs) IN
         IF Len(filter_reasons) > 0
         THEN [GT |-> sample.GT, DP |-> None, Q |-> None, DFLANKINDEL |-> None,
               DSTUTTER |-> None, FILTER |-> filter_reasons]
         ELSE [sample EXCEPT !.FILTER = <<"PASS">>]

\* NewCall that blanks the fields of a passing call as it does those of a
\* failing one.
NewCallBlanksPass(sample, cfs) ==
    IF GTMissing(sample) THEN [sample EXCEPT !.FILTER = <<"NOCALL">>]
    ELSE LET filter_reasons == FilterCall(sample, cfs) IN
         IF Len(filter_reasons) > 0
         THEN [GT |-> "./.", DP |-> None, Q |-> None, DFLANKINDEL |-> None,
               DSTUTTER |-> None, FILTER |-> filter_reasons]
         ELSE [GT |-> "None", DP |-> None, Q |-> None, DFLANKINDEL |-> None,
               DSTUTTER |-> None, FILTER |-> <<"PASS">>]

\* The call ApplyCallFilters builds for one sample (lines 186-214).
NewCall(sample, cfs) ==
    IF GTMissing(sample) THEN [sample EXCEPT !.FILTER = <<"NOCALL">>]
    ELSE LET filter_reasons == FilterCall(sample, cfs) IN
         IF Len(filter_reasons) > 0
         THEN [GT |-> "./.", DP |-> None, Q |-> None, DFLANKINDEL |-> None,
               DSTUTTER |-> None, FILTER |-> filter_reasons]
         ELSE [sample EXCEPT !.FILTER = <<"PASS">>]

\* NewSampleInfo that counts a call that is missing on input as a call.
NewSampleInfoCountsMissing(info, sample, cfs) ==
    IF GTMissing(sample) THEN [info EXCEPT !["numcalls"] = @ + 1]
    ELSE LET filter_reasons == FilterCall(sample, cfs) IN
         IF Len(filter_reasons) > 0
         THEN [k \in DOMAIN info |-> info[k] + Count(filter_reasons, k)]
         ELSE [info EXCEPT !["numcalls"] = @ + 1,
                           !["totaldp"] = @ + Val(sample.DP)]

\* The update ApplyCallFilters makes to one sample's counters (lines 196-209).
NewSampleInfo(info, sample, cfs) ==
    IF GTMissing(sample) THEN info
    ELSE LET filter_reasons == FilterCall(sample, cfs) IN
         IF Len(filter_reasons) > 0
         THEN [k \in DOMAIN info |-> info[k] + Count(filter_reasons, k)]
         ELSE [info EXCEPT !["numcalls"] = @ + 1,
                           !["totaldp"] = @ + Val(sample.DP)]

\* ApplyCallFilters: the rewritten record and the updated sample_info.
\* The FORMAT of the result holds FILTER (lines 171-173).
ApplyCallFilters(record, cfs, sinfo) ==
    [record |->
        [record EXCEPT
            !.FORMAT = IF "FILTER" \in Range(record.FORMAT)
                       THEN record.FORMAT ELSE Append(record.FORMAT, "FILTER"),
            !.samples = [s \in Samples |-> NewCall(record.samples[s], cfs)]],
     sample_info |->
        [s \in Samples |-> NewSampleInfo(sinfo[s], record.samples[s], cfs)]]

(***************************************************************************)
(* Genotype statistics                                                     *)
(***************************************************************************)
\* _Call.called: the genotype of the call is not missing.
Called(call) == call.GT \notin MissingGT

\* _Record.num_called
num_called(record) == Cardinality({s \in Samples : Called(record.samples[s])})

\* The allele sequences of the record, by allele index (0 is REF).
AlleleSeq(record, a) == IF a = 0 THEN record.REF ELSE record.ALT[a]

AlleleIndexes(record) == 0..Len(record.ALT)

\* Number of copies of allele a over the called samples.
AlleleCount(record, a) ==
    SumOver({s \in Samples : Called(record.samples[s])},
            [s \in Samples |-> Count(gt_alleles(record.samples[s].GT), a)])

\* _Record.aaf: frequency of each alternate allele, as fractions.
aaf(record) ==
    [i \in 1..Len(record.ALT) |->
        <<AlleleCount(record, i), 2 * num_called(record)>>]

\* 1 - sum of squared frequencies, for counts cnt over the classes C that add
\* up to total.
HetOf(C, cnt, total) ==
    <<total * total - SumOver(C, [c \in C |-> cnt[c] * cnt[c]]), total * total>>

\* _Record.heterozygosity
heterozygosity(record) ==
    HetOf(AlleleIndexes(record),
          [a \in AlleleIndexes(record) |-> AlleleCount(record, a)],
          2 * num_called(record))

\* Allele classes: the alleles themselves, or their lengths when collapsing.
ClassOf(record, a, uselength) ==
    IF uselength THEN Len(AlleleSeq(record, a)) ELSE a

Classes(record, uselength) ==
    {ClassOf(record, a, uselength) : a \in AlleleIndexes(record)}

ClassCount(record, c, uselength) ==
    SumOver({a \in AlleleIndexes(record) : ClassOf(record, a, uselength) = c},
            [a \in AlleleIndexes(record) |-> AlleleCount(record, a)])

\* utils.GetLengthHet: heterozygosity over length classes.
GetLengthHet(record) ==
    HetOf(Classes(record, TRUE),
          [c \in Classes(record, TRUE) |-> ClassCount(record, c, TRUE)],
          2 * num_called(record))

\* Number of called samples whose two alleles fall in different classes.
ObsHet(record, uselength) ==
    Cardinality({s \in Samples :
        /\ Called(record.samples[s])
        /\ LET g == gt_alleles(record.samples[s].GT) IN
             ClassOf(record, g[1], uselength) # ClassOf(record, g[2], uselength)})

\* Number of ways (times a common factor) to have h heterozygotes among n
\* genotypes with na and nb copies of two classes.
HWEWeight(n, na, nb, h) ==
    (Factorial(n) * Pow2(h))
        \div (Factorial((na - h) \div 2) * Factorial(h) * Factorial((nb - h) \div 2))

\* utils.GetSTRHWE: exact two-sided Hardy-Weinberg p-value, as a fraction.
\* A site of the model has at most two classes.
GetSTRHWE(record, uselength) ==
    LET C == Classes(record, uselength)
        n == num_called(record)
    IN  IF Cardinality(C) < 2 THEN <<1, 1>>
        ELSE LET ca == CHOOSE c \in C : TRUE
                 cb == CHOOSE c \in C : c # ca
                 na == ClassCount(record, ca, uselength)
                 nb == ClassCount(record, cb, uselength)
                 lo == IF na < nb THEN na ELSE nb
                 H  == {h \in 0..lo : (na - h) % 2 = 0}
                 w  == [h \in H |-> HWEWeight(n, na, nb, h)]
                 obs == ObsHet(record, uselength)
             IN  <<SumOver({h \in H : w[h] <= w[obs]}, w), SumOver(H, w)>>

\* utils.GetHomopolymerRun: length of the longest run of one base.
RECURSIVE RunFrom(_, _)
RunFrom(seq, i) ==
    IF i >= Len(seq) \/ seq[i + 1] # seq[i] THEN 1 ELSE 1 + RunFrom(seq, i + 1)

RECURSIVE MaxRun(_, _)
MaxRun(seq, i) ==
    IF i > Len(seq) THEN 0
    ELSE LET r == RunFrom(seq, i)
             m == MaxRun(seq, i + 1)
         IN  IF r > m THEN r ELSE m

GetHomopolymerRun(seq) == MaxRun(seq, 1)

\* fraction f < percent p
FracLess(f, p) == f[1] * 100 < p * f[2]
\* fraction f > percent p
FracMore(f, p) == f[1] * 100 > p * f[2]
\* int(f * k) for a non-negative fraction f
IntTimes(f, k) == (f[1] * k) \div f[2]

(***************************************************************************)
(* Locus filters                                                           *)
(***************************************************************************)
\* Intervals <<chrom, start, end>> of the BED files.
LoadRegions(file) ==
    CASE file = "a.bed" -> {<<"chr1", 50, 250>>}
      [] file = "b.bed" -> {<<"chr1", 150, 250>>}
      [] OTHER -> {}

LocusFilter(kind, name, threshold, uselength, file) ==
    [kind |-> kind, name |-> name, threshold |-> threshold,
     uselength |-> uselength, file |-> file]

\* filters.create_region_filter
create_region_filter(name, file) == LocusFilter("Regions", name, 0, FALSE, file)

\* filt.filter_name()
filter_name(filt) == filt.name

\* filt(record) != None: the locus filter fails the record.
LocusFilterFails(filt, record) ==
    CASE filt.kind = "MinLocusCallrate" ->
            100 * num_called(record) < filt.threshold * Cardinality(Samples)
      [] filt.kind = "MinLocusHWEP" ->
            IF num_called(record) = 0 THEN TRUE
            ELSE FracLess(GetSTRHWE(record, filt.uselength), filt.threshold)
      [] filt.kind = "MinLocusHet" ->
            IF num_called(record) = 0 THEN TRUE
            ELSE FracLess(IF filt.uselength THEN GetLengthHet(record)
                          ELSE heterozygosity(record), filt.threshold)
      [] filt.kind = "MaxLocusHet" ->
            IF num_called(record) = 0 THEN FALSE
            ELSE FracMore(IF filt.uselength THEN GetLengthHet(record)
                          ELSE heterozygosity(record), filt.threshold)
      [] filt.kind = "LocusHrun" ->
            /\ record.PERIOD \in {5, 6}
            /\ GetHomopolymerRun(record.REF) >= record.PERIOD
      [] filt.kind = "Regions" ->
            \E iv \in LoadRegions(filt.file) :
                iv[1] = record.CHROM /\ iv[2] <= record.POS /\ record.POS <= iv[3]

\* "x is not None" for the value of a store_true flag: a bool is never None.
FlagIsNotNone(b) == b \in BOOLEAN

\* Region filters of BuildLocusFilters (lines 263-271): an error message, or
\* the filters to append.
BuildRegionFilters(a) ==
    IF IsNone(a.filter_regions) THEN [error |-> "", fdict |-> <<>>]
    ELSE LET filter_region_files == Val(a.filter_regions)
             mismatch ==
                /\ ~IsNone(a.filter_regions_names)
                /\ Len(Val(a.filter_regions_names)) # Len(filter_region_files)
             filter_region_names ==
                IF ~IsNone(a.filter_regions_names) THEN Val(a.filter_regions_names)
                ELSE [i \in 1..Len(filter_region_files) |-> ToString(i - 1)]
         IN  IF mismatch
             THEN [error |-> "ERROR: length of --filter-regions-names must match --filter-regions",
                   fdict |-> <<>>]
             ELSE [error |-> "",
                   fdict |-> [i \in 1..Len(filter_region_names) |->
                                create_region_filter(filter_region_names[i],
                                                     filter_region_files[i])]]

\* Lines 261-262 of BuildLocusFilters.
HrunFilters(a) ==
    IF FlagIsNotNone(a.filter_hrun)
    THEN <<LocusFilter("LocusHrun", "HRUN", 0, FALSE, "")>> ELSE <<>>

\* BuildLocusFilters: an error message ("" if none) and the locus filter list.
BuildLocusFilters(a) ==
    LET regions == BuildRegionFilters(a) IN
    [error |-> regions.error,
     fdict |->
        (IF ~IsNone(a.min_locus_callrate)
            THEN <<LocusFilter("MinLocusCallrate", "MinLocusCallrate",
                               Val(a.min_locus_callrate), FALSE, "")>> ELSE <<>>)
        \o (IF ~IsNone(a.min_locus_hwep)
            THEN <<LocusFilter("MinLocusHWEP", "MinLocusHWEP",
                               Val(a.min_locus_hwep), a.use_length, "")>> ELSE <<>>)
        \o (IF ~IsNone(a.min_locus_het)
            THEN <<LocusFilter("MinLocusHet", "MinLocusHet",
                               Val(a.min_locus_het), a.use_length, "")>> ELSE <<>>)
        \o (IF ~IsNone(a.max_locus_het)
            THEN <<LocusFilter("MaxLocusHet", "MaxLocusHet",
                               Val(a.max_locus_het), a.use_length, "")>> ELSE <<>>)
        \o HrunFilters(a)
        \o regions.fdict]

(***************************************************************************)
(* The loop body of main                                                   *)
(***************************************************************************)
FilterNone == <<"None", <<>>>>
FilterPASS == <<"PASS", <<>>>>
FilterList(names) == <<"list", names>>

\* _Record.add_filter
add_filter(FILTER, name) ==
    IF FILTER = FilterNone THEN FilterList(<<name>>)
    ELSE FilterList(Append(FILTER[2], name))

\* The locus filter loop that keeps going after a failure in drop mode.
RECURSIVE LocusLoopNoBreak(_, _, _, _)
LocusLoopNoBreak(fl, record, st, drop) ==
    IF fl = <<>> THEN st
    ELSE LET filt == Head(fl)
             st1 == [st EXCEPT !.evaluated = Append(@, filter_name(filt))]
         IN  IF ~LocusFilterFails(filt, record)
             THEN LocusLoopNoBreak(Tail(fl), record, st1, drop)
             ELSE IF drop
             THEN LocusLoopNoBreak(Tail(fl), record,
                      [st1 EXCEPT !.output_record = FALSE,
                                  !.loc_info[filter_name(filt)] = @ + 1], drop)
             ELSE LocusLoopNoBreak(Tail(fl), record,
                      [st1 EXCEPT !.FILTER = add_filter(@, filter_name(filt)),
                                  !.loc_info[filter_name(filt)] = @ + 1], drop)

\* Lines 351-358: st holds record.FILTER, loc_info, output_record and the
\* names of the filters called so far.
RECURSIVE LocusLoop(_, _, _, _)
LocusLoop(fl, record, st, drop) ==
    IF fl = <<>> THEN st
    ELSE LET filt == Head(fl)
             st1 == [st EXCEPT !.evaluated = Append(@, filter_name(filt))]
         IN  IF ~LocusFilterFails(filt, record)
             THEN LocusLoop(Tail(fl), record, st1, drop)
             ELSE IF drop
             THEN [st1 EXCEPT !.output_record = FALSE]
             ELSE LocusLoop(Tail(fl), record,
                      [st1 EXCEPT !.FILTER = add_filter(@, filter_name(filt)),
                                  !.loc_info[filter_name(filt)] = @ + 1], drop)

\* Lines 361-373: the recomputed INFO fields.
RecalcInfo(record, a) ==
    IF num_called(record) > 0
    THEN [HRUN |-> GetHomopolymerRun(record.REF),
          HET |-> IF a.use_length THEN GetLengthHet(record)
                  ELSE heterozygosity(record),
          HWEP |-> GetSTRHWE(record, a.use_length),
          AC |-> [i \in 1..Len(record.ALT) |->
                    IntTimes(aaf(record)[i], 2 * num_called(record))],
          REFAC |-> IntTimes(
                      <<2 * num_called(record)
                          - SumOver(1..Len(record.ALT),
                                    [i \in 1..Len(record.ALT) |-> aaf(record)[i][1]]),
                        2 * num_called(record)>>,
                      2 * num_called(record))]
    ELSE [HRUN |-> GetHomopolymerRun(record.REF),
          HET |-> <<-1, 1>>,
          HWEP |-> <<-1, 1>>,
          AC |-> [i \in 1..Len(record.ALT) |-> 0],
          REFAC |-> 0]

\* "Recalc filter" that does not look at record.FILTER.
RecalcFilterIgnoresFilter(record, linfo, a) ==
    IF ~a.drop_filtered
    THEN [FILTER |-> IF record.FILTER = FilterNone THEN FilterPASS ELSE record.FILTER,
          loc_info |-> [linfo EXCEPT !["PASS"] = @ + 1,
                                     !["totalcalls"] = @ + num_called(record)]]
    ELSE [FILTER |-> record.FILTER, loc_info |-> linfo]

\* "Recalc filter" that does not look at --drop-filtered.
RecalcFilterIgnoresDrop(record, linfo, a) ==
    IF record.FILTER = FilterNone
    THEN [FILTER |-> FilterPASS,
          loc_info |-> [linfo EXCEPT !["PASS"] = @ + 1,
                                     !["totalcalls"] = @ + num_called(record)]]
    ELSE [FILTER |-> record.FILTER, loc_info |-> linfo]

\* Lines 375-378.
RecalcFilter(record, linfo, a) ==
    IF record.FILTER = FilterNone /\ ~a.drop_filtered
    THEN [FILTER |-> FilterPASS,
          loc_info |-> [linfo EXCEPT !["PASS"] = @ + 1,
                                     !["totalcalls"] = @ + num_called(record)]]
    ELSE [FILTER |-> record.FILTER, loc_info |-> linfo]

\* Lines 347-380 for one record: the record after the body, whether it was
\* written, the counters, and the names of the locus filters called.
LoopBody(record, a, fl, cfs, sinfo, linfo) ==
    LET acf == ApplyCallFilters(record, cfs, sinfo)
        r1  == [acf.record EXCEPT !.FILTER = FilterNone]
        ll  == LocusLoop(fl, r1,
                         [FILTER |-> FilterNone, loc_info |-> linfo,
                          output_record |-> TRUE, evaluated |-> <<>>],
                         a.drop_filtered)
        r2  == [r1 EXCEPT !.FILTER = ll.FILTER]
    IN  IF ll.output_record
        THEN LET r3 == [r2 EXCEPT !.INFO = RecalcInfo(r2, a)]
                 rf == RecalcFilter(r3, ll.loc_info, a)
             IN  [record |-> [r3 EXCEPT !.FILTER = rf.FILTER],
                  emitted |-> TRUE,
                  sample_info |-> acf.sample_info,
                  loc_info |-> rf.loc_info,
                  evaluated |-> ll.evaluated]
        ELSE [record |-> r2,
              emitted |-> FALSE,
              sample_info |-> acf.sample_info,
              loc_info |-> ll.loc_info,
              evaluated |-> ll.evaluated]

\* Lines 332-335: sample_info before the first record.
InitSampleInfo ==
    [s \in Samples |->
        [k \in {"numcalls", "totaldp"} \cup Range(GetAllCallFilters) |-> 0]]

\* Lines 338-339: loc_info before the first record.
InitLocInfo(fl) ==
    [k \in {"totalcalls", "PASS"} \cup {filter_name(fl[i]) : i \in 1..Len(fl)} |-> 0]

\* WriteLocLog: the mean (0, or the fraction totalcalls/PASS) and one line per
\* remaining key.
WriteLocLog(linfo) ==
    [MeanSamplesPerPassingSTR |->
        IF linfo["PASS"] = 0 THEN <<0, 1>> ELSE <<linfo["totalcalls"], linfo["PASS"]>>,
     FILTER |-> [k \in DOMAIN linfo \ {"totalcalls"} |-> linfo[k]]]

\* WriteSampLog: one row per sample.
WriteSampLog(sinfo, reasons) ==
    [s \in DOMAIN sinfo |->
        [numcalls |-> sinfo[s]["numcalls"],
         meanDP |-> IF sinfo[s]["numcalls"] > 0
                    THEN <<sinfo[s]["totaldp"], sinfo[s]["numcalls"]>> ELSE <<0, 1>>,
         reasons |-> [i \in 1..Len(reasons) |-> sinfo[s][reasons[i]]]]]

(***************************************************************************)
(* Inputs                                                                  *)
(***************************************************************************)
AllFormats == {"GT", "DP", "Q", "DFLANKINDEL", "DSTUTTER"}

NoArgs ==
    [min_call_DP |-> None, max_call_DP |-> None, min_call_Q |-> None,
     max_call_flank_indel |-> None, max_call_stutter |-> None,
     min_locus_callrate |-> None, min_locus_hwep |-> None,
     min_locus_het |-> None, max_locus_het |-> None,
     use_length |-> FALSE, filter_regions |-> None,
     filter_regions_names |-> None, filter_hrun |-> FALSE,
     drop_filtered |-> FALSE, num_records |-> None]

\* Depth and quality options, valid and invalid, with no other option.
DepthArgs ==
    {[NoArgs EXCEPT !.min_call_DP = a, !.max_call_DP = b, !.min_call_Q = c] :
        a \in {None, Some(-1), Some(10)},
        b \in {None, Some(-1), Some(10), Some(15)},
        c \in {None, Some(150), Some(-10)}}

\* Quality and rate options, valid and invalid, with no other option.
RateArgs ==
    {[NoArgs EXCEPT !.min_call_Q = c, !.max_call_flank_indel = d,
                    !.max_call_stutter = e] :
        c \in {Some(90)},
        d \in {None, Some(50), Some(150), Some(-10)},
        e \in {None, Some(50), Some(150), Some(-10)}}

\* Every call-level option at once.
AllCallArgs ==
    {[NoArgs EXCEPT !.min_call_DP = Some(10), !.max_call_DP = Some(15),
                    !.min_call_Q = Some(90), !.max_call_flank_indel = Some(50),
                    !.max_call_stutter = Some(50)]}

CallArgs == DepthArgs \cup RateArgs \cup AllCallArgs

\* Runs whose input header lacks a FORMAT field: <<missing field, args>>.
HeaderArgs ==
    {<<"DP", [NoArgs EXCEPT !.min_call_DP = Some(10)]>>,
     <<"DP", [NoArgs EXCEPT !.max_call_DP = Some(15)]>>,
     <<"DP", [NoArgs EXCEPT !.max_call_flank_indel = Some(50)]>>,
     <<"DP", [NoArgs EXCEPT !.max_call_stutter = Some(50)]>>,
     <<"DP", [NoArgs EXCEPT !.min_call_Q = Some(90)]>>,
     <<"Q", [NoArgs EXCEPT !.min_call_Q = Some(90)]>>,
     <<"Q", [NoArgs EXCEPT !.min_call_DP = Some(10)]>>,
     <<"DFLANKINDEL", [NoArgs EXCEPT !.max_call_flank_indel = Some(50)]>>,
     <<"DFLANKINDEL", [NoArgs EXCEPT !.max_call_stutter = Some(50)]>>,
     <<"DSTUTTER", [NoArgs EXCEPT !.max_call_stutter = Some(50)]>>,
     <<"DSTUTTER", [NoArgs EXCEPT !.max_call_flank_indel = Some(50)]>>}

\* <<min_locus_callrate, min_locus_hwep, min_locus_het, max_locus_het,
\*   use_length, filter_hrun>>
LocusOptions ==
    {<<None, None, None, None, FALSE, FALSE>>,
     <<None, None, None, None, FALSE, TRUE>>,
     <<Some(80), Some(50), None, None, FALSE, TRUE>>,
     <<Some(80), Some(50), None, None, TRUE, FALSE>>,
     <<None, None, Some(40), Some(40), TRUE, FALSE>>,
     <<Some(80), None, None, Some(40), FALSE, FALSE>>}

LocusArgs ==
    {[NoArgs EXCEPT !.min_call_DP = Some(10),
                    !.min_locus_callrate = t[1], !.min_locus_hwep = t[2],
                    !.min_locus_het = t[3], !.max_locus_het = t[4],
                    !.use_length = t[5], !.filter_hrun = t[6],
                    !.drop_filtered = d] :
        t \in LocusOptions, d \in BOOLEAN}

\* <<filter_regions, filter_regions_names, min_locus_callrate>>, the lists
\* after split(",")
RegionOptions ==
    {<<Some(<<"a.bed">>), None, None>>,
     <<Some(<<"a.bed", "b.bed">>), None, Some(80)>>,
     <<Some(<<"a.bed", "b.bed">>), Some(<<"A", "B">>), None>>,
     <<Some(<<"a.bed", "b.bed">>), Some(<<"A", "A">>), None>>,
     <<Some(<<"a.bed", "b.bed">>), Some(<<"A">>), None>>,
     <<Some(<<"a.bed">>), Some(<<"A", "B">>), None>>,
     <<None, Some(<<"A">>), None>>}

RegionArgs ==
    {[NoArgs EXCEPT !.min_call_DP = Some(10), !.min_locus_callrate = r[3],
                    !.filter_regions = r[1], !.filter_regions_names = r[2],
                    !.drop_filtered = d] :
        r \in RegionOptions, d \in BOOLEAN}

CutoffArgs ==
    {[NoArgs EXCEPT !.min_call_DP = Some(10), !.num_records = Some(1),
                    !.drop_filtered = d] : d \in BOOLEAN}

\* The calls a sample may have in an input record.
AnyCalls ==
    {[GT |-> "./.", DP |-> Some(5), Q |-> Some(95), DFLANKINDEL |-> Some(0),
      DSTUTTER |-> Some(0), FILTER |-> None],
     [GT |-> ".", DP |-> None, Q |-> None, DFLANKINDEL |-> None,
      DSTUTTER |-> None, FILTER |-> None],
     [GT |-> "0/1", DP |-> Some(5), Q |-> Some(95), DFLANKINDEL |-> Some(0),
      DSTUTTER |-> Some(0), FILTER |-> None],
     [GT |-> "0/0", DP |-> Some(20), Q |-> Some(95), DFLANKINDEL |-> Some(0),
      DSTUTTER |-> Some(0), FILTER |-> None],
     [GT |-> "1/1", DP |-> Some(20), Q |-> Some(50), DFLANKINDEL |-> Some(12),
      DSTUTTER |-> Some(4), FILTER |-> None]}

\* The first sample ranges over every call; the second has a genotype on
\* input and can fail the depth filters only.
Calls(s) ==
    IF s = "s1" THEN AnyCalls
    ELSE {c \in AnyCalls : c.Q = Some(95) /\ c.GT \notin MissingGT}

\* The calls of the samples of one input record.
CallSets == {cs \in [Samples -> AnyCalls] : \A s \in Samples : cs[s] \in Calls(s)}

\* The sites of the input records.
Loci ==
    {[CHROM |-> "chr1", POS |-> 300, PERIOD |-> 2,
      REF |-> <<"A", "T", "A", "T">>, ALT |-> <<<<"A", "T">>>>],
     [CHROM |-> "chr1", POS |-> 100, PERIOD |-> 3,
      REF |-> <<"A", "A", "T">>, ALT |-> <<<<"A", "T", "T">>>>],
     [CHROM |-> "chr1", POS |-> 200, PERIOD |-> 5,
      REF |-> <<"A", "A", "A", "A", "A">>,
      ALT |-> <<<<"A", "A", "A", "A", "A", "A", "A", "A", "A", "A">>>>]}

FormatOrder == <<"GT", "DP", "Q", "DFLANKINDEL", "DSTUTTER">>

\* A call as read under a header that declares the FORMAT fields fmts: a
\* field the header does not declare is absent from the record.
ReadCall(c, fmts) ==
    [GT |-> c.GT,
     DP |-> IF "DP" \in fmts THEN c.DP ELSE None,
     Q |-> IF "Q" \in fmts THEN c.Q ELSE None,
     DFLANKINDEL |-> IF "DFLANKINDEL" \in fmts THEN c.DFLANKINDEL ELSE None,
     DSTUTTER |-> IF "DSTUTTER" \in fmts THEN c.DSTUTTER ELSE None,
     FILTER |-> None]

EmptyInfo == [k \in {} |-> 0]

\* The record the reader yields for site l and calls cs.
ReadRecord(l, cs, fmts) ==
    [CHROM |-> l.CHROM, POS |-> l.POS, PERIOD |-> l.PERIOD, REF |-> l.REF,
     ALT |-> l.ALT,
     FORMAT |-> SelectSeq(FormatOrder, LAMBDA f : f \in fmts),
     samples |-> [s \in Samples |-> ReadCall(cs[s], fmts)],
     FILTER |-> FilterNone,
     INFO |-> EmptyInfo]

NoRecord == [CHROM |-> "", POS |-> 0, PERIOD |-> 0, REF |-> <<>>, ALT |-> <<>>,
             FORMAT |-> <<>>, samples |-> [s \in Samples |-> ReadCall(
                [GT |-> ".", DP |-> None, Q |-> None, DFLANKINDEL |-> None,
                 DSTUTTER |-> None], {})],
             FILTER |-> FilterNone, INFO |-> EmptyInfo]

(***************************************************************************)
(* main                                                                    *)
(***************************************************************************)
NoDict == [k \in {} |-> 0]

Init ==
    /\ pc = "start"
    /\ \/ /\ args \in CallArgs \cup LocusArgs \cup RegionArgs \cup CutoffArgs
          /\ formats = AllFormats
       \/ \E h \in HeaderArgs : args = h[2] /\ formats = AllFormats \ {h[1]}
    /\ filter_list = <<>>
    /\ call_filters = <<>>
    /\ outvcf = "closed"
    /\ written = 0
    /\ sample_info = NoDict
    /\ loc_info = NoDict
    /\ record_counter = 0
    /\ rec = NoRecord
    /\ out = NoRecord
    /\ emitted = FALSE
    /\ evaluated = <<>>
    /\ samplog = <<>>
    /\ loclog = <<>>
    /\ processed = 0
    /\ failedLoci = 0
    /\ passCalls = [s \in Samples |-> 0]
    /\ passDP = [s \in Samples |-> 0]
    /\ first = NoRecord

\* Line 307 with the output writer opened before the arguments are checked.
DoCheckFiltersOpenFirst ==
    /\ pc = "start"
    /\ outvcf' = "open"
    /\ pc' = IF CheckFilters(formats, args) # "" THEN "error" ELSE "checked"
    /\ UNCHANGED <<args, formats, filter_list, call_filters, written,
                   sample_info, loc_info, record_counter, rec, out, emitted,
                   evaluated, samplog, loclog, processed, failedLoci, passCalls,
                   passDP, first>>

\* Line 307: CheckFilters(invcf, args); an error exits the program.
DoCheckFilters ==
    /\ pc = "start"
    /\ pc' = IF CheckFilters(formats, args) # "" THEN "error" ELSE "checked"
    /\ UNCHANGED <<args, formats, filter_list, call_filters, outvcf, written,
                   sample_info, loc_info, record_counter, rec, out, emitted,
                   evaluated, samplog, loclog, processed, failedLoci, passCalls,
                   passDP, first>>

\* Line 309: filter_list = BuildLocusFilters(args); an error exits the program.
DoBuildLocusFilters ==
    /\ pc = "checked"
    /\ LET b == BuildLocusFilters(args) IN
         IF b.error # ""
         THEN pc' = "error" /\ UNCHANGED filter_list
         ELSE pc' = "built" /\ filter_list' = b.fdict
    /\ UNCHANGED <<args, formats, call_filters, outvcf, written,
                   sample_info, loc_info, record_counter, rec, out, emitted,
                   evaluated, samplog, loclog, processed, failedLoci, passCalls,
                   passDP, first>>

\* Lines 314-342: call filters, the FILTER format, the writer, the counters.
DoSetup ==
    /\ pc = "built"
    /\ call_filters' = BuildCallFilters(args)
    /\ formats' = formats \cup {"FILTER"}
    /\ outvcf' = "open"
    /\ sample_info' = InitSampleInfo
    /\ loc_info' = InitLocInfo(filter_list)
    /\ record_counter' = 0
    /\ pc' = "loop"
    /\ UNCHANGED <<args, filter_list, written, rec, out, emitted, evaluated,
                   samplog, loclog, processed, failedLoci, passCalls, passDP,
                   first>>

\* Line 345: the record-count cutoff is reached by the next record.
CutoffReached ==
    ~IsNone(args.num_records) /\ record_counter + 1 > Val(args.num_records)

\* Line 209 reads sample["DP"] of a call that passed: a record whose FORMAT
\* has no DP raises an exception there.
DepthUnreadable(record, cfs) ==
    /\ "DP" \notin Range(record.FORMAT)
    /\ \E s \in Samples :
        /\ ~GTMissing(record.samples[s])
        /\ FilterCall(record.samples[s], cfs) = <<>>

\* Lines 343-380 for one record of the stream.
DoRecord ==
    /\ pc = "loop"
    /\ processed < MaxRecords
    /\ ~CutoffReached
    /\ \E l \in Loci, cs \in CallSets :
         \E record \in {ReadRecord(l, cs, formats \ {"FILTER"})} :
           /\ ~DepthUnreadable(record, call_filters)
           /\ \E res \in {LoopBody(record, args, filter_list, call_filters,
                                   sample_info, loc_info)} :
                /\ rec' = record
                /\ out' = res.record
                /\ emitted' = res.emitted
                /\ evaluated' = res.evaluated
                /\ sample_info' = res.sample_info
                /\ loc_info' = res.loc_info
                /\ written' = IF res.emitted THEN written + 1 ELSE written
                /\ failedLoci' =
                     IF \E i \in 1..Len(filter_list) :
                           LocusFilterFails(filter_list[i], res.record)
                     THEN failedLoci + 1 ELSE failedLoci
                /\ passCalls' = [s \in Samples |->
                     IF res.record.samples[s].FILTER = <<"PASS">>
                     THEN passCalls[s] + 1 ELSE passCalls[s]]
                /\ passDP' = [s \in Samples |->
                     IF res.record.samples[s].FILTER = <<"PASS">>
                     THEN passDP[s] + Val(record.samples[s].DP) ELSE passDP[s]]
    /\ record_counter' = record_counter + 1
    /\ processed' = processed + 1
    /\ UNCHANGED <<pc, args, formats, filter_list, call_filters, outvcf,
                   samplog, loclog, first>>

\* Lines 343-347, 209: the uncaught exception ends the program; nothing is
\* written for the record and no log is written.
DoRecordRaises ==
    /\ pc = "loop"
    /\ processed < MaxRecords
    /\ ~CutoffReached
    /\ \E l \in Loci, cs \in CallSets :
         LET record == ReadRecord(l, cs, formats \ {"FILTER"}) IN
             /\ DepthUnreadable(record, call_filters)
             /\ rec' = record
    /\ record_counter' = record_counter + 1
    /\ pc' = "raised"
    /\ UNCHANGED <<args, formats, filter_list, call_filters, outvcf, written,
                   sample_info, loc_info, out, emitted, evaluated, samplog,
                   loclog, processed, failedLoci, passCalls, passDP, first>>

\* Line 345: a record beyond --num-records ends the loop.
DoCutoff ==
    /\ pc = "loop"
    /\ processed < MaxRecords
    /\ CutoffReached
    /\ record_counter' = record_counter + 1
    /\ pc' = "logs"
    /\ UNCHANGED <<args, formats, filter_list, call_filters, outvcf, written,
                   sample_info, loc_info, rec, out, emitted, evaluated, samplog,
                   loclog, processed, failedLoci, passCalls, passDP, first>>

\* Line 343: the input stream has no more records.
DoEndOfStream ==
    /\ pc = "loop"
    /\ pc' = "logs"
    /\ UNCHANGED <<args, formats, filter_list, call_filters, outvcf, written,
                   sample_info, loc_info, record_counter, rec, out, emitted,
                   evaluated, samplog, loclog, processed, failedLoci, passCalls,
                   passDP, first>>

\* Lines 383-384: the two logs.
DoWriteLogs ==
    /\ pc = "logs"
    /\ samplog' = WriteSampLog(sample_info, GetAllCallFilters)
    /\ loclog' = WriteLocLog(loc_info)
    /\ pc' = "done"
    /\ UNCHANGED <<args, formats, filter_list, call_filters, outvcf, written,
                   sample_info, loc_info, record_counter, rec, out, emitted,
                   evaluated, processed, failedLoci, passCalls, passDP, first>>

Next ==
    \/ DoCheckFilters
    \/ DoBuildLocusFilters
    \/ DoSetup
    \/ DoRecord
    \/ DoRecordRaises
    \/ DoCutoff
    \/ DoEndOfStream
    \/ DoWriteLogs

Spec == Init /\ [][Next]_vars

(***************************************************************************)
(* A second run on the output of a first run                               *)
(***************************************************************************)
\* The arguments of a run with the same flags and no filter configured.
StripFilters(a) ==
    [NoArgs EXCEPT !.use_length = a.use_length,
                   !.drop_filtered = a.drop_filtered]

\* A whole run of main on an input of one record.
RunOnRecord(record, a) ==
    LoopBody(record, a, BuildLocusFilters(a).fdict, BuildCallFilters(a),
             InitSampleInfo, InitLocInfo(BuildLocusFilters(a).fdict))

AllPASS(record) == \A s \in Samples : record.samples[s].FILTER = <<"PASS">>

InitTwoRuns ==
    /\ pc = "first_run"
    /\ args \in CallArgs \cup LocusArgs \cup RegionArgs
    /\ formats = AllFormats
    /\ filter_list = <<>>
    /\ call_filters = <<>>
    /\ outvcf = "closed"
    /\ written = 0
    /\ sample_info = NoDict
    /\ loc_info = NoDict
    /\ record_counter = 0
    /\ rec = NoRecord
    /\ out = NoRecord
    /\ emitted = FALSE
    /\ evaluated = <<>>
    /\ samplog = <<>>
    /\ loclog = <<>>
    /\ processed = 0
    /\ failedLoci = 0
    /\ passCalls = [s \in Samples |-> 0]
    /\ passDP = [s \in Samples |-> 0]
    /\ first = NoRecord

\* The first run writes a record all of whose calls carry PASS.
DoFirstRun ==
    /\ pc = "first_run"
    /\ CheckFilters(formats, args) = ""
    /\ BuildLocusFilters(args).error = ""
    /\ \E l \in Loci, cs \in CallSets :
         \E res \in {RunOnRecord(ReadRecord(l, cs, formats), args)} :
            /\ res.emitted
            /\ AllPASS(res.record)
            /\ first' = res.record
    /\ pc' = "second_run"
    /\ UNCHANGED <<args, formats, filter_list, call_filters, outvcf, written,
                   sample_info, loc_info, record_counter, rec, out, emitted,
                   evaluated, samplog, loclog, processed, failedLoci, passCalls,
                   passDP>>

\* The second run reads that record, with no filter configured.
DoSecondRun ==
    /\ pc = "second_run"
    /\ \E res \in {RunOnRecord(first, StripFilters(args))} :
            /\ rec' = first
            /\ out' = res.record
            /\ emitted' = res.emitted
            /\ evaluated' = res.evaluated
            /\ sample_info' = res.sample_info
            /\ loc_info' = res.loc_info
            /\ written' = IF res.emitted THEN 1 ELSE 0
    /\ processed' = 1
    /\ pc' = "second_done"
    /\ UNCHANGED <<args, formats, filter_list, call_filters, outvcf,
                   record_counter, samplog, loclog, failedLoci, passCalls,
                   passDP, first>>

NextTwoRuns == DoFirstRun \/ DoSecondRun

SpecTwoRuns == InitTwoRuns /\ [][NextTwoRuns]_vars

(***************************************************************************)
(* Properties                                                              *)
(***************************************************************************)
\* The counters exist: main is past line 339.
Counting == pc \in {"loop", "logs", "done", "raised"}

\* The step is the loop body run on one record.
RecordStep == processed' = processed + 1

FilterNames == {filter_name(filter_list[i]) : i \in 1..Len(filter_list)}

FailingFilters(record) ==
    {i \in 1..Len(filter_list) : LocusFilterFails(filter_list[i], record)}

FirstFailing(record) ==
    CHOOSE i \in FailingFilters(record) : \A j \in FailingFilters(record) : i <= j

C2_DropStopsAtFirstFailure ==
    [][(RecordStep /\ args.drop_filtered /\ FailingFilters(out') # {}) =>
        LET j == FirstFailing(out') IN
            /\ evaluated' = [i \in 1..j |-> filter_name(filter_list[i])]
            /\ \A i \in (j + 1)..Len(filter_list) :
                 loc_info'[filter_name(filter_list[i])]
                    = loc_info[filter_name(filter_list[i])]
            /\ loc_info'["PASS"] = loc_info["PASS"]
            /\ loc_info'["totalcalls"] = loc_info["totalcalls"]
            /\ ~emitted'
            /\ written' = written
            /\ out'.INFO = rec'.INFO
            /\ DOMAIN out'.INFO = {}]_vars

C2_Witness ==
    /\ Counting
    /\ args.drop_filtered
    /\ processed >= 1
    /\ FailingFilters(out) # {}
    /\ FirstFailing(out) < Len(filter_list)
    /\ Len(evaluated) = FirstFailing(out)
    /\ ~emitted

\* The minimum depth of a run that configures one.
LowDepth(call) ==
    /\ ~IsNone(args.min_call_DP)
    /\ ~IsNone(call.DP)
    /\ Val(call.DP) < Val(args.min_call_DP)

\* What the low-depth claim says of sample s in a record step.
LowDepthHandled(s) ==
    /\ "LowCallDepth" \in Range(out'.samples[s].FILTER)
    /\ out'.samples[s].GT \in MissingGT
    /\ sample_info'[s]["LowCallDepth"] = sample_info[s]["LowCallDepth"] + 1

\* C3 as stated: every call whose depth is below the configured minimum gets
\* a failure set with LowCallDepth, a missing genotype in the output, and one
\* more in its sample's LowCallDepth counter.
C3_Original ==
    [][RecordStep =>
        \A s \in Samples : LowDepth(rec'.samples[s]) => LowDepthHandled(s)]_vars

\* C3 amended: the same, for every call whose genotype is not missing on
\* input and whose depth is below the configured minimum.
C3_LowDepthOfCalledGenotype ==
    [][RecordStep =>
        \A s \in Samples :
            (LowDepth(rec'.samples[s]) /\ ~GTMissing(rec'.samples[s]))
                => LowDepthHandled(s)]_vars

C3_Witness ==
    /\ Counting
    /\ processed >= 1
    /\ \E s \in Samples :
        /\ LowDepth(rec.samples[s])
        /\ ~GTMissing(rec.samples[s])
        /\ "LowCallDepth" \in Range(out.samples[s].FILTER)
        /\ sample_info[s]["LowCallDepth"] = 1

\* Registry positions of the call filters that fire on a call.
Fired(call) ==
    {i \in 1..Len(call_filters) : CallFilterFires(call_filters[i], call)}

\* C4: for a call whose genotype is not missing on input every registered call
\* filter is evaluated, and the status lists, in registry order, the reasons
\* of exactly the filters that fired; when some fired the output genotype is
\* missing, each reason listed has its counter of that sample incremented by
\* one, and the other reason counters, numcalls and the depth sum are unchanged.
C4_AllFiringReasonsInOrder ==
    [][RecordStep =>
        \A s \in Samples :
            LET call == rec'.samples[s]
                st == out'.samples[s].FILTER
            IN  (~GTMissing(call) /\ Fired(call) # {}) =>
                  /\ Len(st) = Cardinality(Fired(call))
                  /\ \A k \in 1..Len(st) :
                        \E i \in Fired(call) :
                            /\ st[k] = GetReason(call_filters[i])
                            /\ Cardinality({j \in Fired(call) : j < i}) = k - 1
                  /\ out'.samples[s].GT \in MissingGT
                  /\ \A r \in Range(GetAllCallFilters) :
                        sample_info'[s][r] = sample_info[s][r]
                            + (IF r \in Range(st) THEN 1 ELSE 0)
                  /\ sample_info'[s]["numcalls"] = sample_info[s]["numcalls"]
                  /\ sample_info'[s]["totaldp"] = sample_info[s]["totaldp"]]_vars

C4_Witness ==
    /\ Counting
    /\ processed >= 1
    /\ \E s \in Samples :
        /\ ~GTMissing(rec.samples[s])
        /\ Cardinality(Fired(rec.samples[s])) >= 3
        /\ Len(out.samples[s].FILTER) >= 3

\* C5: after any prefix of the stream, in either mode, numcalls of a sample
\* is the number of processed records in which its call got PASS and the
\* depth sum is the sum of the depths of those calls; a call missing on input
\* (status NOCALL) changes no counter of its sample; no counter decreases.
C5_SampleCounters ==
    /\ [](Counting =>
            \A s \in Samples :
                /\ sample_info[s]["numcalls"] = passCalls[s]
                /\ sample_info[s]["totaldp"] = passDP[s])
    /\ [][Counting =>
            \A s \in Samples :
                /\ \A k \in DOMAIN sample_info[s] :
                        sample_info'[s][k] >= sample_info[s][k]
                /\ (RecordStep /\ GTMissing(rec'.samples[s])) =>
                        /\ out'.samples[s].FILTER = <<"NOCALL">>
                        /\ sample_info'[s] = sample_info[s]]_vars

C5_Witness ==
    /\ Counting
    /\ processed = 2
    /\ \E s \in Samples :
        /\ sample_info[s]["numcalls"] = 1
        /\ sample_info[s]["totaldp"] = 20
        /\ out.samples[s].FILTER = <<"NOCALL">>
    /\ \E s \in Samples : sample_info[s]["numcalls"] = 2

\* The arguments and the input header are free of configuration errors.
ConfigOK ==
    /\ ~IsNone(args.min_call_DP) => Val(args.min_call_DP) >= 0
    /\ ~IsNone(args.max_call_DP) => Val(args.max_call_DP) >= 0
    /\ (~IsNone(args.min_call_DP) /\ ~IsNone(args.max_call_DP)) =>
            Val(args.max_call_DP) > Val(args.min_call_DP)
    /\ \A o \in {args.min_call_Q, args.max_call_flank_indel, args.max_call_stutter} :
            ~IsNone(o) => (0 <= Val(o) /\ Val(o) <= 100)
    /\ (~IsNone(args.min_call_DP) \/ ~IsNone(args.max_call_DP)
            \/ ~IsNone(args.max_call_flank_indel) \/ ~IsNone(args.max_call_stutter))
          => "DP" \in formats
    /\ ~IsNone(args.min_call_Q) => "Q" \in formats
    /\ ~IsNone(args.max_call_flank_indel) => "DFLANKINDEL" \in formats
    /\ ~IsNone(args.max_call_stutter) => "DSTUTTER" \in formats
    /\ (~IsNone(args.filter_regions) /\ ~IsNone(args.filter_regions_names)) =>
            Len(Val(args.filter_regions)) = Len(Val(args.filter_regions_names))

\* C6: every configuration error is raised before the first record is
\* processed and before the output writer is opened: a run that ended in one
\* processed no record, has no counter, wrote no record and no log, and a run
\* that got past the checks has no configuration error.
C6_ConfigErrorsBeforeAnyRecord ==
    /\ pc = "error" =>
        /\ ~ConfigOK
        /\ processed = 0
        /\ record_counter = 0
        /\ outvcf = "closed"
        /\ written = 0
        /\ DOMAIN sample_info = {}
        /\ DOMAIN loc_info = {}
        /\ samplog = <<>>
        /\ loclog = <<>>
    /\ pc \in {"built", "loop", "logs", "done", "raised"} => ConfigOK

C6_Witness ==
    /\ pc = "error"
    /\ CheckFilters(formats, args) = ""
    /\ Len(Val(args.filter_regions)) # Len(Val(args.filter_regions_names))

\* The kinds of locus filter the supplied locus-level options call for.
ExpectedKinds ==
    (IF ~IsNone(args.min_locus_callrate) THEN {"MinLocusCallrate"} ELSE {})
    \cup (IF ~IsNone(args.min_locus_hwep) THEN {"MinLocusHWEP"} ELSE {})
    \cup (IF ~IsNone(args.min_locus_het) THEN {"MinLocusHet"} ELSE {})
    \cup (IF ~IsNone(args.max_locus_het) THEN {"MaxLocusHet"} ELSE {})
    \cup (IF args.filter_hrun THEN {"LocusHrun"} ELSE {})
    \cup (IF ~IsNone(args.filter_regions) THEN {"Regions"} ELSE {})

\* C7: the locus filter list holds a filter exactly for each locus-level
\* option supplied: the homopolymer-run filter is registered if and only if
\* --filter-hrun is set, and with no locus-level option the list is empty.
C7_LocusFiltersMatchOptions ==
    pc \in {"built", "loop", "logs", "done", "raised"} =>
        /\ {filter_list[i].kind : i \in 1..Len(filter_list)} = ExpectedKinds
        /\ (\E i \in 1..Len(filter_list) : filter_list[i].kind = "LocusHrun")
                <=> args.filter_hrun
        /\ ExpectedKinds = {} => filter_list = <<>>

\* C8: a processed locus increments the fail counter of each locus filter
\* name at most once, and the name is at most once in the locus's FILTER.
C8_OncePerFilterName ==
    [][RecordStep =>
        /\ \A k \in FilterNames : loc_info'[k] <= loc_info[k] + 1
        /\ \A k \in FilterNames : Count(out'.FILTER[2], k) <= 1]_vars

\* C9: a run with no filter configured on a record written by a first run,
\* all of whose calls carry PASS, leaves every call at PASS and recomputes
\* HET, HWEP, HRUN, AC and REFAC to the values of the first run.
C9_SecondRunIdempotent ==
    pc = "second_done" =>
        /\ AllPASS(out)
        /\ \A s \in Samples : out.samples[s].GT = first.samples[s].GT
        /\ emitted
        /\ out.INFO = first.INFO

C9_Witness ==
    /\ pc = "second_done"
    /\ emitted
    /\ num_called(first) = 2
    /\ out.INFO.HET[1] > 0
    /\ out.INFO.AC[1] = 1
    /\ out.INFO.REFAC = 3

\* C10: in drop mode, after any sequence of records, PASS, totalcalls and
\* every per-filter fail counter are 0, a written record has no locus FILTER
\* (not PASS), and the mean written to the locus log is 0.
C10_DropModeCountsNothing ==
    (Counting /\ args.drop_filtered) =>
        /\ \A k \in DOMAIN loc_info : loc_info[k] = 0
        /\ (processed >= 1 /\ emitted) => out.FILTER = FilterNone
        /\ pc = "done" => loclog.MeanSamplesPerPassingSTR = <<0, 1>>

C10_Witness ==
    /\ args.drop_filtered
    /\ pc = "done"
    /\ processed = 2
    /\ written = 1
    /\ emitted
    /\ out.FILTER = FilterNone
    /\ num_called(out) >= 1
    /\ loclog.MeanSamplesPerPassingSTR = <<0, 1>>

====
